---- MODULE Spec2Model ----
(***************************************************************************)
(* Change tracking for file sources (locomote-sh/utils).                   *)
(*                                                                         *)
(* Strings are sequences of character codes; a 'changes' object is a       *)
(* function from a finite set of strings (its own property keys) to        *)
(* BOOLEAN.                                                                *)
(***************************************************************************)
EXTENDS Integers, Sequences, FiniteSets, TLC

VARIABLES
    changes,    \* openFileSource: the map captured by getChanges
    fpc,        \* openFileSource.getChanges: "idle" or "listing" (at the await)
    before,     \* ghost: changes as it was when the query in flight was called
    hist,       \* ghost: the last three completed file-source queries
    gitSince,   \* openGitSource.getChanges: argument of the last call
    gitStdout,  \* text the git command of the last call wrote to stdout
    gitStderr,  \* text the git command of the last call wrote to stderr
    gitStatus,  \* "none", "resolved" or "rejected"
    gitMap,     \* the map the last git query resolved to (empty when it rejected)
    normIn,     \* correctExtendedChars: argument
    normOut,    \* correctExtendedChars: result
    normDone,   \* whether normOut holds the result for normIn
    execPhase,  \* cmds.exec: "idle", "running", "failed" (error emitted) or "closed"
    execOut,    \* cmds.exec: the chunks pushed to stdout
    execErr,    \* cmds.exec: the chunks pushed to stderr
    execCode,   \* exit status the close event carried
    execPromise, \* the promise exec returned
    cpc,        \* overlapping getChanges calls: each caller "idle" or "listing"
    reported,   \* ghost: keys of changes whose value false a query has returned
    dropped,    \* ghost: paths deleted from changes that no query reported false
    overlapped, \* ghost: two calls have been in flight together
    failedAny,  \* ghost: a call has failed
    srcKind,    \* which source the caller opened: "none", "file" or "git"
    heap,       \* the changes objects alive, by identity
    rpc,        \* the file-source call on the heap: "idle" or "listing"
    held,       \* the results the caller keeps: reference, call and content then
    rFailed,    \* whether the last call on the heap failed
    cmdCall,    \* the last call of rm, rmdirs or findrm and its arguments
    cmdRan,     \* the commands that call has passed to exec
    cmdState    \* "idle", "threw", "running", "resolved" or "rejected"

fileVars == <<changes, fpc, before, hist>>
gitVars  == <<gitSince, gitStdout, gitStderr, gitStatus, gitMap>>
normVars == <<normIn, normOut, normDone>>
execVars == <<execPhase, execOut, execErr, execCode, execPromise>>
concVars == <<cpc, reported, dropped, overlapped, failedAny>>
refVars  == <<srcKind, heap, rpc, held, rFailed>>
cmdVars  == <<cmdCall, cmdRan, cmdState>>
vars     == <<fileVars, gitVars, normVars, execVars, concVars, refVars, cmdVars>>

----------------------------------------------------------------------------
(* Bounds *)

NumFiles   == 2     \* files that can exist under the file source's root
MaxEntries == 2     \* entries in one git diff
MaxLen     == 6     \* length of a string given to correctExtendedChars
MaxChunks  == 2     \* data events on each stream of a spawned process
NumCallers == 2     \* callers sharing one file-source handle
MaxHeld    == 2     \* git results the caller keeps at a time
MaxPaths   == 2     \* paths or patterns given to one call of rmdirs or findrm

----------------------------------------------------------------------------
(* Characters and JavaScript values *)

DQUOTE    == 34     \* 0x22
BACKSLASH == 92
TAB       == 9
NEWLINE   == 10
SLASH     == 47
NaN       == -1                 \* no character code is negative
Undefined == <<-1>>             \* no string holds a negative code
UndefinedKey == <<117, 110, 100, 101, 102, 105, 110, 101, 100>>   \* "undefined"

IsDigit(c)      == c \in 48..57     \* \d
IsOctalDigit(c) == c \in 48..55

EmptyMap == [k \in {} |-> TRUE]

\* obj[key] = value
Put(obj, key, value) ==
    [k \in (DOMAIN obj) \cup {key} |-> IF k = key THEN value ELSE obj[k]]

\* Object.assign( target, source )
ObjectAssign(target, source) ==
    [k \in (DOMAIN target) \cup (DOMAIN source) |->
        IF k \in DOMAIN source THEN source[k] ELSE target[k]]

\* The property key a value is converted to.
PropertyKey(v) == IF v = Undefined THEN UndefinedKey ELSE v

Range(s) == { s[i] : i \in DOMAIN s }

RECURSIVE SplitAcc(_, _, _)
SplitAcc(s, sep, cur) ==
    IF s = <<>> THEN <<cur>>
    ELSE IF Head(s) = sep THEN <<cur>> \o SplitAcc(Tail(s), sep, <<>>)
    ELSE SplitAcc(Tail(s), sep, Append(cur, Head(s)))

\* s.split( sep ) for a one-character separator
Split(s, sep) == SplitAcc(s, sep, <<>>)

\* let [ a, b, c ] = fields: a missing element is undefined
Element(fields, i) == IF i <= Len(fields) THEN fields[i] ELSE Undefined

\* s.charCodeAt( i ), i counted from 0
CharCodeAt(s, i) == IF i >= 0 /\ i < Len(s) THEN s[i + 1] ELSE NaN

----------------------------------------------------------------------------
(* cmds.exec *)

\* _stdout.split('\n'): the value exec resolves to
ExecResolve(stdout) == Split(stdout, NEWLINE)

\* Buffer.concat( chunks ).toString()
RECURSIVE Concat(_)
Concat(chunks) == IF chunks = <<>> THEN <<>> ELSE Head(chunks) \o Concat(Tail(chunks))

\* The error a failed spawn emits: "E"
LaunchError == <<69>>

\* A promise: its state, and the lines it resolved to or the text it
\* rejected with.
Pending == [state |-> "pending", lines |-> <<>>, text |-> <<>>]

\* resolve( lines ) and reject( text ): a settled promise stays as it is.
\* (SettleAgain: the variant in which a later call settles it anew)
SettleAgain(p, state, lines, text) ==
    [state |-> state, lines |-> lines, text |-> text]
Settle(p, state, lines, text) ==
    IF p.state = "pending"
    THEN [state |-> state, lines |-> lines, text |-> text]
    ELSE p

\* proc.on('error', reject )
OnError(p, err) == Settle(p, "rejected", <<>>, err)

\* proc.on('close', ... )
\* (OnCloseIgnoreStderr: the variant that does not look at stderr)
OnCloseIgnoreStderr(p, stdout, stderr) ==
    Settle(p, "resolved", ExecResolve(Concat(stdout)), <<>>)
OnClose(p, stdout, stderr) ==
    IF Len(stderr) > 0
    THEN Settle(p, "rejected", <<>>, Concat(stderr))
    ELSE Settle(p, "resolved", ExecResolve(Concat(stdout)), <<>>)

\* The data events that deliver a text: none for the empty text.
Chunks(text) == IF text = <<>> THEN <<>> ELSE <<text>>

\* exec from spawn to close: a spawn that fails emits error and then close,
\* with no data; a process that ran emits its data and then close.
ExecRun(stdout, stderr, launchFails) ==
    IF launchFails
    THEN OnClose(OnError(Pending, LaunchError), <<>>, <<>>)
    ELSE OnClose(Pending, Chunks(stdout), Chunks(stderr))

\* The chunks a data event can carry: "a", "\n" and "a\nb"
ExecChunks == { <<97>>, <<NEWLINE>>, <<97, NEWLINE, 98>> }

\* spawn( cmd, args, { cwd, env } ) and the registration of the handlers
ExecStart ==
    /\ execPhase = "running"
    /\ execOut = <<>>
    /\ execErr = <<>>
    /\ execCode = 0
    /\ execPromise = Pending

\* proc.stdout.on('data', data => stdout.push( data ) )
ExecStdoutData ==
    /\ execPhase = "running"
    /\ Len(execOut) < MaxChunks
    /\ \E data \in ExecChunks : execOut' = Append(execOut, data)
    /\ UNCHANGED <<execPhase, execErr, execCode, execPromise>>
    /\ UNCHANGED <<changes, fpc, before, hist, gitSince, gitStdout, gitStderr,
                   gitStatus, gitMap, normIn, normOut, normDone, concVars, refVars, cmdVars>>

\* proc.stderr.on('data', data => stderr.push( data ) )
ExecStderrData ==
    /\ execPhase = "running"
    /\ Len(execErr) < MaxChunks
    /\ \E data \in ExecChunks : execErr' = Append(execErr, data)
    /\ UNCHANGED <<execPhase, execOut, execCode, execPromise>>
    /\ UNCHANGED <<changes, fpc, before, hist, gitSince, gitStdout, gitStderr,
                   gitStatus, gitMap, normIn, normOut, normDone, concVars, refVars, cmdVars>>

\* The error event of a spawn that failed: the process never ran, so no
\* data event came before it and none comes after it.
ExecError ==
    /\ execPhase = "running"
    /\ execOut = <<>> /\ execErr = <<>>
    /\ execPromise' = OnError(execPromise, LaunchError)
    /\ execPhase' = "failed"
    /\ UNCHANGED <<execOut, execErr, execCode>>
    /\ UNCHANGED <<changes, fpc, before, hist, gitSince, gitStdout, gitStderr,
                   gitStatus, gitMap, normIn, normOut, normDone, concVars, refVars, cmdVars>>

\* The close event: the streams have ended; it follows a failed spawn too.
ExecClose ==
    /\ execPhase \in {"running", "failed"}
    /\ \E code \in {0, 1} : execCode' = code
    /\ execPromise' = OnClose(execPromise, execOut, execErr)
    /\ execPhase' = "closed"
    /\ UNCHANGED <<execOut, execErr>>
    /\ UNCHANGED <<changes, fpc, before, hist, gitSince, gitStdout, gitStderr,
                   gitStatus, gitMap, normIn, normOut, normDone, concVars, refVars, cmdVars>>

ExecIdle ==
    /\ execPhase = "idle"
    /\ execOut = <<>>
    /\ execErr = <<>>
    /\ execCode = 0
    /\ execPromise = Pending

----------------------------------------------------------------------------
(* Filename normalization *)

RECURSIVE ParseOctalAcc(_, _, _)
ParseOctalAcc(ds, acc, seen) ==
    IF ds = <<>> \/ ~IsOctalDigit(Head(ds))
    THEN IF seen THEN acc ELSE NaN
    ELSE ParseOctalAcc(Tail(ds), acc * 8 + (Head(ds) - 48), TRUE)

\* parseInt( ds, 8 ) on a string of decimal digits: the longest prefix of
\* octal digits is read, and NaN results when there is none.
ParseInt8(ds) == ParseOctalAcc(ds, 0, FALSE)

\* String.fromCharCode( n ): ToUint16, NaN becoming 0
FromCharCode(n) == IF n = NaN THEN <<0>> ELSE <<n % 65536>>

octetToStr(octet) == FromCharCode(ParseInt8(Tail(octet)))

\* s.replace( /\\\d\d\d/g, octetToStr ): matches are found left to right,
\* do not overlap, and the replacement text is not scanned again.
RECURSIVE ReplaceOctets(_)
ReplaceOctets(s) ==
    IF s = <<>> THEN <<>>
    ELSE IF /\ Len(s) >= 4
            /\ s[1] = BACKSLASH
            /\ IsDigit(s[2]) /\ IsDigit(s[3]) /\ IsDigit(s[4])
         THEN octetToStr(SubSeq(s, 1, 4)) \o ReplaceOctets(SubSeq(s, 5, Len(s)))
         ELSE <<Head(s)>> \o ReplaceOctets(Tail(s))

correctExtendedChars(s) ==
    IF CharCodeAt(s, 0) = DQUOTE /\ CharCodeAt(s, Len(s) - 1) = DQUOTE
    THEN ReplaceOctets(SubSeq(s, 2, Len(s) - 1))
    ELSE s

----------------------------------------------------------------------------
(* openFileSource *)

Root == <<114>>     \* the path the source is opened on: "r"

\* Relative paths of the files that can exist under Root: "a", "s/b", "c", ...
RelFile(i) == IF i % 2 = 0 THEN <<115, SLASH, 96 + i>> ELSE <<96 + i>>
RelFiles   == { RelFile(i) : i \in 1..NumFiles }

\* What 'find <path> -type f' prints for the files fs, in the order given.
RECURSIVE FindStdout(_)
FindStdout(fs) ==
    IF fs = <<>> THEN <<>>
    ELSE Root \o <<SLASH>> \o Head(fs) \o <<NEWLINE>> \o FindStdout(Tail(fs))

\* The orders in which find can print a set of files.
Listings ==
    UNION { { fs \in [1..n -> RelFiles] :
                \A i, j \in 1..n : i # j => fs[i] # fs[j] } : n \in 0..NumFiles }

\* Path.relative( from, to ) for a file that find printed under from
PathRelative(from, to) ==
    IF Len(to) > Len(from) + 1 /\ SubSeq(to, 1, Len(from) + 1) = from \o <<SLASH>>
    THEN SubSeq(to, Len(from) + 2, Len(to))
    ELSE to

RECURSIVE MarkActive(_, _)
MarkActive(files, active) ==
    IF files = <<>> THEN active
    ELSE MarkActive(Tail(files), Put(active, PropertyKey(Head(files)), TRUE))

RECURSIVE MapRelative(_)
MapRelative(files) ==
    IF files = <<>> THEN <<>>
    ELSE <<PathRelative(Root, Head(files))>> \o MapRelative(Tail(files))

\* openFileSource.listActive, given what exec resolved to
\* (ListActiveAbsolute: the variant that leaves out the Path.relative step)
ListActiveAbsolute(files) ==
    MarkActive(SelectSeq(files, LAMBDA file : Len(file) > 0), EmptyMap)
fileListActive(files) ==
    MarkActive(MapRelative(SelectSeq(files, LAMBDA file : Len(file) > 0)), EmptyMap)

\* The loop that prepares the previous changes for rewrite: entries describing
\* deletions are removed and all others are marked as potential deletions.
\* (PrepareNoDelete: the variant that keeps the deletions; PrepareNoMark: the
\* variant that does not mark the others; PrepareDropAll: the variant that
\* deletes every entry.)
PrepareDropAll(prev) == EmptyMap
PrepareNoDelete(prev) == [path \in DOMAIN prev |-> FALSE]
PrepareNoMark(prev) ==
    [path \in { k \in DOMAIN prev : prev[k] # FALSE } |-> prev[path]]
Prepare(prev) ==
    [path \in { k \in DOMAIN prev : prev[k] # FALSE } |-> FALSE]

\* Copy the currently active set over the previous state.
\* (CommitKeepPrevious: the variant with the arguments of Object.assign swapped)
CommitKeepPrevious(prev, active) == ObjectAssign(active, prev)
Commit(prev, active) == ObjectAssign(prev, active)

Remember(h, e) == IF Len(h) < 3 THEN Append(h, e) ELSE Append(Tail(h), e)

\* getChanges() up to its await: the loop has run and find has been spawned.
FileCall ==
    /\ fpc = "idle"
    /\ before' = changes
    /\ changes' = Prepare(changes)
    /\ fpc' = "listing"
    /\ UNCHANGED <<hist, gitVars, normVars, execVars, concVars, refVars, cmdVars>>

\* find wrote no stderr: listActive resolves and getChanges returns changes.
FileResolve ==
    /\ fpc = "listing"
    /\ \E fs \in Listings :
        LET active == fileListActive(ExecResolve(FindStdout(fs))) IN
        /\ changes' = Commit(changes, active)
        /\ hist' = Remember(hist, [ok |-> TRUE, scan |-> Range(fs),
                                   before |-> before, after |-> changes'])
    /\ fpc' = "idle"
    /\ UNCHANGED <<before, gitVars, normVars, execVars, concVars, refVars, cmdVars>>

\* find wrote to stderr or could not be launched: the await throws.
FileReject ==
    /\ fpc = "listing"
    /\ hist' = Remember(hist, [ok |-> FALSE, scan |-> {},
                               before |-> before, after |-> changes])
    /\ fpc' = "idle"
    /\ UNCHANGED <<changes, before, gitVars, normVars, execVars, concVars, refVars, cmdVars>>

----------------------------------------------------------------------------
(* openFileSource: calls of getChanges that overlap *)

Callers == 1..NumCallers

FalseKeys(m) == { p \in DOMAIN m : m[p] = FALSE }

\* getChanges() up to its await, called while other calls may be in flight.

ConcCall(c) ==
    /\ cpc[c] = "idle"
    /\ changes' = Prepare(changes)
    /\ cpc' = [cpc EXCEPT ![c] = "listing"]
    /\ dropped' = dropped \cup ((DOMAIN changes \ DOMAIN changes') \ reported)
    /\ reported' = reported \cap DOMAIN changes'
    /\ overlapped' = (overlapped \/ \E d \in Callers : d # c /\ cpc[d] = "listing")
    /\ UNCHANGED <<failedAny, fpc, before, hist, gitVars, normVars, execVars, refVars, cmdVars>>

\* The await of a call in flight returns: changes is updated and returned.
ConcResolve(c) ==
    /\ cpc[c] = "listing"
    /\ \E fs \in Listings :
        /\ changes' = Commit(changes, fileListActive(ExecResolve(FindStdout(fs))))
        /\ dropped' = dropped \ Range(fs)
    /\ reported' = FalseKeys(changes')
    /\ cpc' = [cpc EXCEPT ![c] = "idle"]
    /\ UNCHANGED <<overlapped, failedAny, fpc, before, hist, gitVars, normVars,
                   execVars, refVars, cmdVars>>

\* The await of a call in flight throws.
ConcReject(c) ==
    /\ cpc[c] = "listing"
    /\ cpc' = [cpc EXCEPT ![c] = "idle"]
    /\ failedAny' = TRUE
    /\ UNCHANGED <<changes, reported, dropped, overlapped, fpc, before, hist,
                   gitVars, normVars, execVars, refVars, cmdVars>>

ConcInit ==
    /\ cpc = [c \in Callers |-> "idle"]
    /\ reported = {}
    /\ dropped = {}
    /\ overlapped = FALSE
    /\ failedAny = FALSE

----------------------------------------------------------------------------
(* openGitSource *)

StatusM == <<77>>               \* "M"
StatusA == <<65>>               \* "A"
StatusD == <<68>>               \* "D"
StatusR == <<82, 49, 48, 48>>   \* "R100"
StatusC == <<67, 49, 48, 48>>   \* "C100"
RenameFlag == 82                \* 'R'

\* Paths as git prints them: a, b and the quoted "\303"
GitPaths == { <<97>>, <<98>>, <<DQUOTE, BACKSLASH, 51, 48, 51, DQUOTE>> }

\* The entries of 'git diff --name-status': a status and one path, or a
\* rename or copy status and two paths.
DiffEntries ==
    [code : {StatusM, StatusA, StatusD}, from : GitPaths, to : {Undefined}]
        \cup { e \in [code : {StatusR, StatusC}, from : GitPaths, to : GitPaths] :
                    e.from # e.to }

EntryPaths(e) == {e.from} \cup (IF e.to = Undefined THEN {} ELSE {e.to})

\* A diff names each path once.
Diffs ==
    UNION { { es \in [1..n -> DiffEntries] :
                \A i, j \in 1..n : i # j => EntryPaths(es[i]) \cap EntryPaths(es[j]) = {} }
            : n \in 0..MaxEntries }

FormatEntry(e) ==
    e.code \o <<TAB>> \o e.from \o (IF e.to = Undefined THEN <<>> ELSE <<TAB>> \o e.to)

RECURSIVE DiffStdout(_)
DiffStdout(es) ==
    IF es = <<>> THEN <<>>
    ELSE FormatEntry(Head(es)) \o <<NEWLINE>> \o DiffStdout(Tail(es))

\* 'git ls-tree -r --name-only' prints each file of the tree once.
Trees ==
    UNION { { fs \in [1..n -> GitPaths] :
                \A i, j \in 1..n : i # j => fs[i] # fs[j] }
            : n \in 0..Cardinality(GitPaths) }

RECURSIVE TreeStdout(_)
TreeStdout(fs) ==
    IF fs = <<>> THEN <<>>
    ELSE Head(fs) \o <<NEWLINE>> \o TreeStdout(Tail(fs))

\* The values getChanges is called with: nothing, "" and the commit "c"
Sinces == { Undefined, <<>>, <<99>> }

\* The condition of 'since ? ... : ...'
Truthy(v) == v # Undefined /\ v # <<>>

\* The body of the forEach of getChangesSince, for one entry: only 'from' is
\* passed through correctExtendedChars, 'to' is used as it was printed.
\* (HandleEntryCopyAsRename: the variant that reads a copy as two paths too)
HandleEntryCopyAsRename(entry, map) ==
    LET fields == Split(entry, TAB)
        code   == Element(fields, 1)
        from   == correctExtendedChars(Element(fields, 2))
        to     == Element(fields, 3)
    IN  IF CharCodeAt(code, 0) = RenameFlag \/ CharCodeAt(code, 0) = 67
        THEN Put(Put(map, PropertyKey(from), FALSE), PropertyKey(to), TRUE)
        ELSE Put(map, PropertyKey(from), code # StatusD)
HandleEntry(entry, map) ==
    LET fields == Split(entry, TAB)
        code   == Element(fields, 1)
        from   == correctExtendedChars(Element(fields, 2))
        to     == Element(fields, 3)
    IN  IF CharCodeAt(code, 0) = RenameFlag
        THEN Put(Put(map, PropertyKey(from), FALSE), PropertyKey(to), TRUE)
        ELSE Put(map, PropertyKey(from), code # StatusD)

RECURSIVE ForEachEntry(_, _)
ForEachEntry(entries, map) ==
    IF entries = <<>> THEN map
    ELSE ForEachEntry(Tail(entries), HandleEntry(Head(entries), map))

\* correctExtendedChars( undefined ) throws: an entry without a tab has no
\* 'from' field.
EntryThrows(entries) ==
    \E i \in DOMAIN entries :
        Len(entries[i]) > 0 /\ Len(Split(entries[i], TAB)) < 2

\* openGitSource.getChangesSince, given what exec resolved to
getChangesSince(entries) ==
    ForEachEntry(SelectSeq(entries, LAMBDA entry : Len(entry) > 0), EmptyMap)

RECURSIVE MapCorrect(_)
MapCorrect(files) ==
    IF files = <<>> THEN <<>>
    ELSE <<correctExtendedChars(Head(files))>> \o MapCorrect(Tail(files))

\* openGitSource.listActive, given what exec resolved to
\* (ListActiveNoFilter: the variant that keeps the empty lines)
ListActiveNoFilter(files) == MarkActive(MapCorrect(files), EmptyMap)
gitListActive(files) ==
    MarkActive(MapCorrect(SelectSeq(files, LAMBDA file : Len(file) > 0)), EmptyMap)

\* What git can write to stdout for a call with this argument.
GitStdouts(since) ==
    IF Truthy(since)
    THEN { DiffStdout(es) : es \in Diffs }
    ELSE { TreeStdout(fs) : fs \in Trees }

\* What git writes to stderr when it complains: "e"
GitComplaint == <<101>>

\* getChanges( since ), from the call to the settling of the promise it
\* returns, for a git that wrote stdout and stderr or could not be launched.
GitQuery(since, stdout, stderr, launchFails) ==
    LET p     == ExecRun(stdout, stderr, launchFails)
        lines == p.lines
    IN  /\ gitSince' = since
        /\ gitStdout' = stdout
        /\ gitStderr' = stderr
        /\ IF p.state = "rejected"
           THEN gitStatus' = "rejected" /\ gitMap' = EmptyMap
           ELSE IF Truthy(since)
                THEN IF EntryThrows(lines)
                     THEN gitStatus' = "rejected" /\ gitMap' = EmptyMap
                     ELSE gitStatus' = "resolved" /\ gitMap' = getChangesSince(lines)
                ELSE gitStatus' = "resolved" /\ gitMap' = gitListActive(lines)
        /\ UNCHANGED <<fileVars, normVars, execVars, concVars, refVars, cmdVars>>

\* git wrote no stderr: the query resolves to a new map.
GitResolve ==
    \E since \in Sinces : \E stdout \in GitStdouts(since) :
        GitQuery(since, stdout, <<>>, FALSE)

\* git wrote to stderr, whatever it wrote to stdout, or could not be
\* launched: the query rejects.
GitReject ==
    \E since \in Sinces :
        \/ \E stdout \in GitStdouts(since) : GitQuery(since, stdout, GitComplaint, FALSE)
        \/ GitQuery(since, <<>>, <<>>, TRUE)

----------------------------------------------------------------------------
(* correctExtendedChars on its own *)

\* The characters of the strings tried: '"', '\', '1', '7' and '8'
NormChars == { DQUOTE, BACKSLASH, 49, 55, 56 }

NormInputs == UNION { [1..n -> NormChars] : n \in 0..MaxLen }

NormCall ==
    /\ ~normDone
    /\ normOut' = correctExtendedChars(normIn)
    /\ normDone' = TRUE
    /\ UNCHANGED <<normIn, fileVars, gitVars, execVars, concVars, refVars, cmdVars>>

NormInit ==
    /\ normIn \in NormInputs
    /\ normOut = <<>>
    /\ normDone = FALSE

----------------------------------------------------------------------------
(* The changes objects by identity: who creates them and who writes to them *)

\* The object 'const changes = {}' of openFileSource creates, once per handle
FileObject == 0

\* An identity no live object has.
NewObject(h) ==
    CHOOSE o \in 1..(MaxHeld + 1) :
        o \notin DOMAIN h /\ \A q \in 1..(o - 1) : q \in DOMAIN h

\* 'const changes = {}' of getChangesSince and of listActive: each call
\* creates an object, which starts empty.
\* (SharedChangesObject: the variant with one object per handle, as in
\* openFileSource)
SharedChangesObject(h) ==
    [id |-> 1, map |-> IF 1 \in DOMAIN h THEN h[1] ELSE EmptyMap]
GitChangesObject(h) == [id |-> NewObject(h), map |-> EmptyMap]

\* The objects still referenced: the handle's own and those the caller keeps.
Live(h, kept) ==
    [o \in { q \in DOMAIN h : q = FileObject \/ \E r \in kept : r.ref = q } |-> h[o]]

\* The calls tried on the git source by identity: diffs and trees of at most
\* one line.
RefStdouts(since) ==
    IF Truthy(since)
    THEN { DiffStdout(es) : es \in { d \in Diffs : Len(d) <= 1 } }
    ELSE { TreeStdout(fs) : fs \in { t \in Trees : Len(t) <= 1 } }

RefFileCall ==
    /\ srcKind = "file"
    /\ rpc = "idle"
    /\ heap' = [heap EXCEPT ![FileObject] = Prepare(@)]
    /\ rpc' = "listing"
    /\ UNCHANGED <<srcKind, held, rFailed, fileVars, gitVars, normVars, execVars,
                   concVars, cmdVars>>

\* 'return changes': the caller receives the handle's object.
RefFileResolve ==
    /\ srcKind = "file"
    /\ rpc = "listing"
    /\ \E fs \in Listings :
        LET stdout == FindStdout(fs)
            p      == ExecRun(stdout, <<>>, FALSE)
        IN  /\ heap' = [heap EXCEPT ![FileObject] = Commit(@, fileListActive(p.lines))]
            /\ held' = { [ref |-> FileObject, mode |-> "file", stdout |-> stdout,
                          was |-> heap'[FileObject]] }
    /\ rpc' = "idle"
    /\ rFailed' = FALSE
    /\ UNCHANGED <<srcKind, fileVars, gitVars, normVars, execVars, concVars, cmdVars>>

RefFileReject ==
    /\ srcKind = "file"
    /\ rpc = "listing"
    /\ rpc' = "idle"
    /\ rFailed' = TRUE
    /\ UNCHANGED <<srcKind, heap, held, fileVars, gitVars, normVars, execVars,
                   concVars, cmdVars>>

\* 'return changes': the caller receives the object the call created.
RefGitResolve ==
    /\ srcKind = "git"
    /\ Cardinality(held) < MaxHeld
    /\ \E since \in Sinces : \E stdout \in RefStdouts(since) :
        LET p      == ExecRun(stdout, <<>>, FALSE)
            obj    == GitChangesObject(heap)
            result == ObjectAssign(obj.map, IF Truthy(since)
                                            THEN getChangesSince(p.lines)
                                            ELSE gitListActive(p.lines))
        IN  /\ heap' = Put(heap, obj.id, result)
            /\ held' = held \cup { [ref |-> obj.id,
                                    mode |-> IF Truthy(since) THEN "diff" ELSE "list",
                                    stdout |-> stdout, was |-> result] }
    /\ rFailed' = FALSE
    /\ UNCHANGED <<srcKind, rpc, fileVars, gitVars, normVars, execVars, concVars, cmdVars>>

\* exec rejects before any object is created.
RefGitReject ==
    /\ srcKind = "git"
    /\ rFailed' = TRUE
    /\ UNCHANGED <<srcKind, heap, rpc, held, fileVars, gitVars, normVars, execVars,
                   concVars, cmdVars>>

\* The caller lets go of a result of the git source.
RefDrop ==
    /\ srcKind = "git"
    /\ \E r \in held :
        /\ held' = held \ {r}
        /\ heap' = Live(heap, held')
    /\ UNCHANGED <<srcKind, rpc, rFailed, fileVars, gitVars, normVars, execVars,
                   concVars, cmdVars>>

RefIdle ==
    /\ srcKind = "none"
    /\ heap = <<>>
    /\ rpc = "idle"
    /\ held = {}
    /\ rFailed = FALSE

\* openFileSource( path ) or openGitSource( path, branch )
RefOpen ==
    /\ srcKind \in {"file", "git"}
    /\ heap = IF srcKind = "file" THEN [o \in {FileObject} |-> EmptyMap] ELSE <<>>
    /\ rpc = "idle"
    /\ held = {}
    /\ rFailed = FALSE

----------------------------------------------------------------------------
(* cmds.js: rm, rmdirs and findrm *)

\* The paths and patterns tried.
CmdNames == {".", "/", "a", "b"}
NameLists == UNION { [1..n -> CmdNames] : n \in 0..MaxPaths }

\* path == '.' || path == '/'
IsRootPath(path) == path = "." \/ path = "/"

\* What a call leaves behind: whether it threw, and the commands it has
\* passed to exec.
Threw == [threw |-> TRUE, ran |-> <<>>]
Launched(cmd, args) == [threw |-> FALSE, ran |-> <<[cmd |-> cmd, args |-> args]>>]

\* rm( path )
rm(path) ==
    IF IsRootPath(path) THEN Threw ELSE Launched("rm", <<"-Rf", path>>)

\* rmdirs( paths ): the forEach throws at the first root path; the one exec
\* comes after the loop.
\* (RmdirsEachPath: the variant that removes path by path inside the loop)
RmdirsEachPath(paths, isArray) ==
    LET ps  == IF isArray THEN paths ELSE <<paths>>
        bad == { i \in 1..Len(ps) : IsRootPath(ps[i]) }
        k   == IF bad = {} THEN Len(ps) + 1
               ELSE CHOOSE i \in bad : \A j \in bad : i <= j
    IN  [threw |-> bad # {},
         ran   |-> [i \in 1..(k - 1) |-> [cmd |-> "rm", args |-> <<"-Rf", ps[i]>>]]]
rmdirs(paths, isArray) ==
    LET ps == IF isArray THEN paths ELSE <<paths>>
    IN  IF \E i \in 1..Len(ps) : IsRootPath(ps[i])
        THEN Threw
        ELSE Launched("rm", <<"-Rf">> \o ps)

\* .filter( p => p != '/' && p != '.' )
SafePattern(p) == p # "/" /\ p # "."

\* .reduce(...): -name p0 -or -name p1 ...
RECURSIVE FindrmReduce(_, _, _)
FindrmReduce(ps, i, args) ==
    IF i > Len(ps) THEN args
    ELSE FindrmReduce(ps, i + 1,
            (IF Len(args) > 0 THEN Append(args, "-or") ELSE args) \o <<"-name", ps[i]>>)

\* findrm( ...patterns )
findrm(patterns) ==
    LET args == FindrmReduce(SelectSeq(patterns, SafePattern), 1, <<>>)
    IN  Launched("find", args \o <<"-d", "1", "-exec", "rm", "-Rf", "{}", ";">>)

Ran(fn, args, isArray, r) ==
    /\ cmdCall' = [fn |-> fn, args |-> args, isArray |-> isArray]
    /\ cmdRan' = r.ran
    /\ cmdState' = IF r.threw THEN "threw" ELSE "running"
    /\ UNCHANGED <<fileVars, gitVars, normVars, execVars, concVars, refVars>>

RmCall == \E path \in CmdNames : Ran("rm", <<path>>, FALSE, rm(path))

RmdirsCall ==
    \/ \E paths \in NameLists : Ran("rmdirs", paths, TRUE, rmdirs(paths, TRUE))
    \/ \E path \in CmdNames : Ran("rmdirs", <<path>>, FALSE, rmdirs(path, FALSE))

FindrmCall == \E patterns \in NameLists : Ran("findrm", patterns, TRUE, findrm(patterns))

\* The promise of exec settles.
CmdSettle ==
    /\ cmdState = "running"
    /\ cmdState' \in {"resolved", "rejected"}
    /\ UNCHANGED <<cmdCall, cmdRan, fileVars, gitVars, normVars, execVars, concVars,
                   refVars>>

CmdIdle ==
    /\ cmdCall = [fn |-> "none", args |-> <<>>, isArray |-> FALSE]
    /\ cmdRan = <<>>
    /\ cmdState = "idle"

GitInit ==
    /\ gitSince = Undefined
    /\ gitStdout = <<>>
    /\ gitStderr = <<>>
    /\ gitStatus = "none"
    /\ gitMap = EmptyMap

FileInit ==
    /\ changes = EmptyMap
    /\ fpc = "idle"
    /\ before = EmptyMap
    /\ hist = <<>>

NormIdle ==
    /\ normIn = <<>>
    /\ normOut = <<>>
    /\ normDone = FALSE

Init == FileInit /\ GitInit /\ NormIdle /\ ExecIdle /\ ConcInit /\ RefIdle /\ CmdIdle

Next == FileCall \/ FileResolve \/ FileReject

Spec == Init /\ [][Next]_vars

GitNext == GitResolve \/ GitReject

GitSpec == Init /\ [][GitNext]_vars

ConcNext == \E c \in Callers : ConcCall(c) \/ ConcResolve(c) \/ ConcReject(c)

ConcSpec == Init /\ [][ConcNext]_vars

RefInit == FileInit /\ GitInit /\ NormIdle /\ ExecIdle /\ ConcInit /\ RefOpen /\ CmdIdle

RefNext ==
    \/ RefFileCall \/ RefFileResolve \/ RefFileReject
    \/ RefGitResolve \/ RefGitReject \/ RefDrop

RefSpec == RefInit /\ [][RefNext]_vars

CmdNext == RmCall \/ RmdirsCall \/ FindrmCall \/ CmdSettle

CmdSpec == Init /\ [][CmdNext]_vars

ExecInit == FileInit /\ GitInit /\ NormIdle /\ ExecStart /\ ConcInit /\ RefIdle /\ CmdIdle

ExecNext == ExecStdoutData \/ ExecStderrData \/ ExecError \/ ExecClose

ExecSpec == ExecInit /\ [][ExecNext]_vars

NormStart == FileInit /\ GitInit /\ NormInit /\ ExecIdle /\ ConcInit /\ RefIdle /\ CmdIdle

NormNext == NormCall

NormSpec == NormStart /\ [][NormNext]_vars

----------------------------------------------------------------------------
(* File source: properties of serial queries on one handle *)

Has(m, p, v) == p \in DOMAIN m /\ m[p] = v

\* C1: when queries N, N+1 (and N+2) succeed one after the other, a path in
\* the scan of N and not in the scan of N+1 is mapped to false by the result
\* of N+1, and has no key in the result of N+2 if the scan of N+2 lacks it too.
C1_DeletionProtocol ==
    \A i \in 1..(Len(hist) - 1) :
        hist[i].ok /\ hist[i + 1].ok =>
            \A p \in hist[i].scan \ hist[i + 1].scan :
                /\ Has(hist[i + 1].after, p, FALSE)
                /\ (i + 2 <= Len(hist) /\ hist[i + 2].ok /\ p \notin hist[i + 2].scan)
                        => p \notin DOMAIN hist[i + 2].after

C1_Witness ==
    /\ Len(hist) = 3
    /\ \A i \in 1..3 : hist[i].ok
    /\ \E p \in hist[1].scan : p \notin hist[2].scan /\ p \notin hist[3].scan

\* C2: when queries N, N+1 (and N+2) succeed one after the other, a path not
\* in the scan of N and in the scan of N+1 is mapped to true by the result of
\* N+1, and by the result of N+2 if the scan of N+2 still holds it.
C2_AdditionProtocol ==
    \A i \in 1..(Len(hist) - 1) :
        hist[i].ok /\ hist[i + 1].ok =>
            \A p \in hist[i + 1].scan \ hist[i].scan :
                /\ Has(hist[i + 1].after, p, TRUE)
                /\ (i + 2 <= Len(hist) /\ hist[i + 2].ok /\ p \in hist[i + 2].scan)
                        => Has(hist[i + 2].after, p, TRUE)

C2_Witness ==
    /\ Len(hist) = 3
    /\ \A i \in 1..3 : hist[i].ok
    /\ \E p \in hist[2].scan : p \notin hist[1].scan /\ p \in hist[3].scan

\* C3: when two queries succeed one after the other on the same scanned set,
\* every path the first result maps to true the second maps to true, and a
\* third such query returns a map equal to the second.
C3_Idempotence ==
    \A i \in 1..(Len(hist) - 1) :
        hist[i].ok /\ hist[i + 1].ok /\ hist[i].scan = hist[i + 1].scan =>
            /\ \A p \in DOMAIN hist[i].after :
                    hist[i].after[p] = TRUE => Has(hist[i + 1].after, p, TRUE)
            /\ (i + 2 <= Len(hist) /\ hist[i + 2].ok
                    /\ hist[i + 2].scan = hist[i + 1].scan)
                        => hist[i + 2].after = hist[i + 1].after

\* Three queries on one unchanged, non-empty scan, the first of which also
\* reports a deletion.
C3_Witness ==
    /\ Len(hist) = 3
    /\ \A i \in 1..3 : hist[i].ok
    /\ hist[1].scan = hist[2].scan /\ hist[2].scan = hist[3].scan
    /\ hist[1].scan # {}
    /\ \E p \in DOMAIN hist[1].after : hist[1].after[p] = FALSE

\* C4: a query whose enumeration fails leaves the tracked map exactly as it
\* was before the call.
C4_FailureAtomicity ==
    \A i \in 1..Len(hist) : ~hist[i].ok => hist[i].after = hist[i].before

\* C5: no key is false at the end of two consecutive queries, failed or not,
\* and a key that is false when a query starts is removed or set to true by
\* that query.
C5_FalseAtMostOnce ==
    /\ \A i \in 1..(Len(hist) - 1) :
            \A p \in DOMAIN hist[i].after :
                ~(hist[i].after[p] = FALSE /\ Has(hist[i + 1].after, p, FALSE))
    /\ \A i \in 1..Len(hist) :
            \A p \in DOMAIN hist[i].before :
                hist[i].before[p] = FALSE =>
                    p \notin DOMAIN hist[i].after \/ hist[i].after[p] = TRUE

\* A failed query starts with a key that is false and ends without it, and a
\* successful one starts with a key that is false and ends with it true.
C5_Witness ==
    /\ \E i \in 1..Len(hist) :
            /\ ~hist[i].ok
            /\ \E p \in DOMAIN hist[i].before :
                    hist[i].before[p] = FALSE /\ p \notin DOMAIN hist[i].after
    /\ \E i \in 1..Len(hist) :
            /\ hist[i].ok
            /\ \E p \in DOMAIN hist[i].before :
                    hist[i].before[p] = FALSE /\ Has(hist[i].after, p, TRUE)

----------------------------------------------------------------------------
(* Git source: properties of the map a query resolves to *)

GitLines == SelectSeq(ExecResolve(gitStdout), LAMBDA line : Len(line) > 0)

DiffMode == gitStatus = "resolved" /\ Truthy(gitSince)
ListMode == gitStatus = "resolved" /\ ~Truthy(gitSince)

\* The status code begins with the rename indicator and carries a score.
IsRename(code) == Len(code) > 1 /\ code[1] = RenameFlag

IsQuoted(s) == Len(s) >= 2 /\ s[1] = DQUOTE /\ s[Len(s)] = DQUOTE

\* C6: in diff mode, every line whose status begins with R and a score has
\* its 'from' path mapped to false and its 'to' path mapped to true.
C6_RenameEntries ==
    DiffMode =>
        \A i \in DOMAIN GitLines :
            LET f == Split(GitLines[i], TAB) IN
            IsRename(f[1]) =>
                /\ Has(gitMap, correctExtendedChars(f[2]), FALSE)
                /\ Has(gitMap, correctExtendedChars(f[3]), TRUE)

\* C7: in diff mode, the path of every line whose status does not begin with
\* R is mapped to false if the status is exactly "D" and to true otherwise.
C7_SinglePathEntries ==
    DiffMode =>
        \A i \in DOMAIN GitLines :
            LET f == Split(GitLines[i], TAB) IN
            ~IsRename(f[1]) =>
                Has(gitMap, correctExtendedChars(f[2]), f[1] # StatusD)

\* A diff with a deletion of a quoted path beside a modification or a copy.
C7_Witness ==
    /\ DiffMode
    /\ \E i, j \in DOMAIN GitLines :
        LET f == Split(GitLines[i], TAB)
            g == Split(GitLines[j], TAB)
        IN  /\ f[1] = StatusD /\ IsQuoted(f[2])
            /\ Has(gitMap, correctExtendedChars(f[2]), FALSE)
            /\ g[1] \in {StatusM, StatusC}
            /\ Has(gitMap, g[2], TRUE)

\* The paths the tool output carries: each line in listing mode; the first
\* path of each line, and the second of a rename line, in diff mode.
ExtractedPaths ==
    IF Truthy(gitSince)
    THEN UNION { LET f == Split(GitLines[i], TAB) IN
                 {f[2]} \cup (IF IsRename(f[1]) THEN {f[3]} ELSE {})
                 : i \in DOMAIN GitLines }
    ELSE Range(GitLines)

\* C8: every key of a returned map is an extracted path passed through
\* filename normalization, and none is a still-quoted path.
C8_KeysNormalized ==
    gitStatus = "resolved" =>
        \A k \in DOMAIN gitMap :
            /\ k \in { correctExtendedChars(p) : p \in ExtractedPaths }
            /\ ~IsQuoted(k)

\* C9: in listing mode the keys are exactly the normalized non-empty lines,
\* every value is true and the empty line is no key.
C9_ListingMode ==
    ListMode =>
        /\ DOMAIN gitMap = { correctExtendedChars(l) : l \in Range(GitLines) }
        /\ \A k \in DOMAIN gitMap : gitMap[k] = TRUE
        /\ <<>> \notin DOMAIN gitMap

\* A listing of a plain and a quoted path, followed by the empty last line.
C9_Witness ==
    /\ ListMode
    /\ Len(GitLines) >= 2
    /\ \E l \in Range(GitLines) : IsQuoted(l)
    /\ <<>> \in Range(ExecResolve(gitStdout))
    /\ Cardinality(DOMAIN gitMap) = Len(GitLines)

----------------------------------------------------------------------------
(* Filename normalization as described *)

RECURSIVE C10_Decode(_)
C10_Decode(s) ==
    IF s = <<>> THEN <<>>
    ELSE IF /\ Len(s) >= 4
            /\ s[1] = BACKSLASH
            /\ IsOctalDigit(s[2]) /\ IsOctalDigit(s[3]) /\ IsOctalDigit(s[4])
         THEN <<(s[2] - 48) * 64 + (s[3] - 48) * 8 + (s[4] - 48)>>
                  \o C10_Decode(SubSeq(s, 5, Len(s)))
         ELSE <<Head(s)>> \o C10_Decode(Tail(s))

\* C10: a path that starts and ends with a double quote loses both quotes
\* and has each backslash with three octal digits replaced by the character
\* of that octal value, which lies in 0..255; a backslash with three digits
\* that are not all octal stays; any other path is returned unchanged.
C10_Normalization ==
    normDone =>
        /\ normOut = IF Len(normIn) >= 1 /\ normIn[1] = DQUOTE
                        /\ normIn[Len(normIn)] = DQUOTE
                     THEN C10_Decode(SubSeq(normIn, 2, Len(normIn) - 1))
                     ELSE normIn
        /\ \A i \in DOMAIN normOut : normOut[i] \in 0..255

----------------------------------------------------------------------------
(* Failure of the external command *)

\* C11: when the git command of a query writes to stderr the query rejects
\* and no map reaches the caller, whatever lines the command wrote to stdout.
C11_GitFailure ==
    gitStderr # <<>> => gitStatus = "rejected" /\ gitMap = EmptyMap

\* git wrote entries to stdout and a complaint to stderr.
C11_Witness ==
    /\ gitStderr # <<>>
    /\ \E i \in DOMAIN GitLines : Len(Split(GitLines[i], TAB)) >= 2
    /\ gitStatus = "rejected"

\* exec as its events leave it: pending until close or a spawn error;
\* resolved only once closed with no stderr chunk, to stdout split at line
\* breaks; rejected with all of stderr once closed with a stderr chunk,
\* whatever the exit status; rejected once the spawn failed.
C12_ExecOutcome ==
    /\ execPhase = "running" => execPromise.state = "pending"
    /\ execPromise.state = "resolved" =>
            /\ execPhase = "closed"
            /\ execErr = <<>>
            /\ execPromise.lines = Split(Concat(execOut), NEWLINE)
    /\ execPhase = "closed" /\ execErr # <<>> =>
            /\ execPromise.state = "rejected"
            /\ execPromise.text = Concat(execErr)
    /\ execPhase = "failed" => execPromise.state = "rejected"
    /\ execPhase = "closed" /\ execOut = <<>> /\ execErr = <<>> =>
            \/ execPromise.state = "resolved"
            \/ execPromise.state = "rejected" /\ execPromise.text = LaunchError

\* C12: under every order of the data, error and close events the promise
\* of exec settles at most once, and it settles as C12_ExecOutcome says.
C12_ExecSettlesOnce ==
    /\ []C12_ExecOutcome
    /\ [][execPromise.state # "pending" =>
            execPromise'.state = execPromise.state
                /\ execPromise'.lines = execPromise.lines
                /\ execPromise'.text = execPromise.text]_vars

\* Closed with exit status 0 after two stderr chunks between stdout chunks.
C12_Witness ==
    /\ execPhase = "closed"
    /\ execCode = 0
    /\ Len(execErr) = 2 /\ Len(execOut) >= 1
    /\ execPromise.state = "rejected"
    /\ execPromise.text = Concat(execErr)

----------------------------------------------------------------------------
(* File source: the result of one call, and a failure before a deletion *)

TrueKeys(m) == { p \in DOMAIN m : m[p] = TRUE }

\* C14: a successful query returns exactly the enumerated paths mapped to
\* true and the paths that were true before the call and are not enumerated
\* mapped to false; on a handle that tracks nothing yet, exactly the
\* enumerated paths, all true.
C14_PerCallResult ==
    \A i \in 1..Len(hist) :
        hist[i].ok =>
            /\ DOMAIN hist[i].after = hist[i].scan \cup TrueKeys(hist[i].before)
            /\ \A p \in DOMAIN hist[i].after : hist[i].after[p] = (p \in hist[i].scan)
            /\ hist[i].before = EmptyMap => TrueKeys(hist[i].after) = hist[i].scan

\* One call that adds a path, reports a deletion and forgets an earlier one.
C14_Witness ==
    \E i \in 1..Len(hist) :
        /\ hist[i].ok
        /\ \E p \in hist[i].scan : p \notin DOMAIN hist[i].before
        /\ \E p \in DOMAIN hist[i].after : hist[i].after[p] = FALSE
        /\ \E j \in 1..Len(hist) : hist[j].ok /\ hist[j].before = EmptyMap
                                    /\ hist[j].scan # {}

\* C15: when a path is true in the tracked map, one or more queries then
\* fail, and the next query succeeds with a scan that lacks the path, that
\* query returns the path mapped to false.
C15_DeletionAfterFailure ==
    \A i, j \in 1..Len(hist) :
        (/\ i < j
         /\ \A k \in i..(j - 1) : ~hist[k].ok
         /\ hist[j].ok)
            => \A p \in TrueKeys(hist[i].before) \ hist[j].scan :
                    Has(hist[j].after, p, FALSE)

----------------------------------------------------------------------------
(* Git source: copy entries *)

\* The status code begins with the copy indicator.
IsCopy(code) == Len(code) > 1 /\ code[1] = 67

\* C17: in diff mode a line whose status begins with C and that carries two
\* paths has its first path mapped to true, and its second path is no key of
\* the map, neither as printed nor normalized.
C17_CopyEntries ==
    DiffMode =>
        \A i \in DOMAIN GitLines :
            LET f == Split(GitLines[i], TAB) IN
            IsCopy(f[1]) /\ Len(f) = 3 =>
                /\ Has(gitMap, correctExtendedChars(f[2]), TRUE)
                /\ f[3] \notin DOMAIN gitMap
                /\ correctExtendedChars(f[3]) \notin DOMAIN gitMap

\* A copy to a quoted path beside another entry.
C17_Witness ==
    /\ DiffMode
    /\ Len(GitLines) = 2
    /\ \E i \in DOMAIN GitLines :
        LET f == Split(GitLines[i], TAB) IN
        IsCopy(f[1]) /\ Len(f) = 3 /\ IsQuoted(f[3])

----------------------------------------------------------------------------
(* File source: overlapping calls *)

\* C13: as long as no call has failed, a path is deleted from the tracked
\* map without a query having reported it false only when two calls have
\* been in flight together; and there is such an interleaving.
C13_LostOnlyWhenOverlapped ==
    (dropped # {} /\ ~failedAny) => overlapped

\* Two successful calls overlapped; a path that was true is gone from the
\* map and from the directory, and no query returned it as false.
C13_Witness ==
    /\ \A c \in Callers : cpc[c] = "idle"
    /\ ~failedAny
    /\ overlapped
    /\ \E p \in dropped : p \notin DOMAIN changes

----------------------------------------------------------------------------
(* Who owns a returned map *)

\* C16: a result of the git source is an object of its own, which holds
\* what it held when it was returned; a result of the file source is the
\* handle's one object, and what the caller was given is changed in place
\* as soon as the next call has run its loop, also when that call then fails.
C16_ResultOwnership ==
    \A r \in held :
        IF r.mode = "file"
        THEN /\ r.ref = FileObject
             /\ (r.was # EmptyMap /\ (rpc = "listing" \/ rFailed))
                    => heap[r.ref] # r.was
        ELSE /\ r.ref # FileObject
             /\ heap[r.ref] = r.was
             /\ \A q \in held \ {r} : q.ref # r.ref

\* The caller holds a file-source result that a failed call has changed,
\* or two git-source results.
C16_Witness ==
    \/ /\ srcKind = "file" /\ rFailed /\ rpc = "idle"
       /\ \E r \in held : r.was # EmptyMap /\ heap[r.ref] # r.was
    \/ /\ srcKind = "git"
       /\ \E r, q \in held : r.ref # q.ref /\ r.was # EmptyMap /\ q.was # EmptyMap

\* C18: two results of the git source for the same mode and the same tool
\* output are equal maps, whatever was called in between.
C18_GitStateless ==
    \A r, q \in held :
        (r.mode # "file" /\ r.mode = q.mode /\ r.stdout = q.stdout) => r.was = q.was

\* Two results, objects of their own, for one non-empty tool output, the
\* later one after a failed call.
C18_Witness ==
    /\ rFailed
    /\ \E r, q \in held :
        /\ r.ref # q.ref
        /\ r.mode = "diff" /\ q.mode = "diff"
        /\ r.stdout = q.stdout /\ r.stdout # <<>>
        /\ r.was = q.was

----------------------------------------------------------------------------
(* The guards of the removal commands *)

\* C19: when the path given to rm, or any path given to rmdirs, is '.' or
\* '/', the call throws and has passed no command to exec, not for the safe
\* paths before the root path either.
C19_RootPathGuard ==
    (/\ cmdCall.fn \in {"rm", "rmdirs"}
     /\ \E i \in 1..Len(cmdCall.args) : IsRootPath(cmdCall.args[i]))
        => (cmdState = "threw" /\ cmdRan = <<>>)

\* rmdirs was given a safe path and then a root path.
C19_Witness ==
    /\ cmdCall.fn = "rmdirs" /\ cmdCall.isArray
    /\ Len(cmdCall.args) >= 2
    /\ ~IsRootPath(cmdCall.args[1]) /\ IsRootPath(cmdCall.args[2])
    /\ cmdState = "threw" /\ cmdRan = <<>>

\* The patterns that follow a -name in the arguments of a command.
Named(args) == { args[i + 1] : i \in { j \in 1..(Len(args) - 1) : args[j] = "-name" } }

\* C20: the find command of findrm has a -name for each pattern other than
\* '/' and '.', none for '/' or '.', and at least one -name.
C20_FindrmFilter ==
    cmdCall.fn = "findrm" =>
        /\ Len(cmdRan) = 1 /\ cmdRan[1].cmd = "find"
        /\ Named(cmdRan[1].args)
             = { cmdCall.args[i] : i \in { j \in 1..Len(cmdCall.args) :
                                             SafePattern(cmdCall.args[j]) } }
        /\ Named(cmdRan[1].args) # {}

====
